---- MODULE Spec2Model ----
(***************************************************************************)
(* The GET route of vite-plugin-fs (src/server/requests/get.ts).           *)
(*                                                                         *)
(* Each request runs the async handler of router.get.  The handler is      *)
(* suspended only at its awaits (fs.stat, fs.readFile, fs.readdir); the    *)
(* code between two awaits runs to completion, so the model has one action *)
(* per resumption.  The filesystem is outside the handler and is read at   *)
(* the moment an awaited operation resolves.                               *)
(***************************************************************************)
EXTENDS Integers, Sequences, FiniteSets, TLC

VARIABLES
    fs,        \* the filesystem: resolved path -> node
    pc,        \* per request: the await the handler is suspended at
    ctx,       \* per request: koa context (path, query.command, status, body)
    stats,     \* per request: the handler's `stats` constant (line 114)
    detailed,  \* per request: readIfDir's `detailed` parameter
    response,  \* per request: the handler's `response` variable (line 113)
    caught,    \* per request: the error the catch clause received, if any
    ops,       \* per request: the fs calls issued so far, in order
    sets       \* per request: number of assignments to ctx.status

vars == <<fs, pc, ctx, stats, detailed, response, caught, ops, sets>>

----------------------------------------------------------------------------
(* Bounds *)

\* Longest directory listing in the modelled filesystems.
MaxEntries == 2

\* In-flight requests.
Requests == {"r1", "r2"}

\* The request followed while the filesystem changes under it.
Solo == {"r1"}

\* Request paths (ctx.path).
HttpPaths == {"/a", "/b"}

\* Values of ctx.query.command, as the list of values the query string gives
\* the key: <<>> is undefined (key absent), <<s>> is the string s, a longer
\* list is the string[] of a repeated key.
Commands ==
    { <<>>, <<"">>, <<"readfile">>, <<"readdir">>, <<"readdir-detailed">>,
      <<"stat">>, <<"bogus">>, <<"readfile", "readfile">> }

\* File contents (bytes).
Contents == { <<>>, <<104, 105>> }

\* Directory entries: a regular file, a directory, a symbolic link.
Dirents ==
    { [name |-> "a.txt", kind |-> "file"],
      [name |-> "sub",   kind |-> "dir"],
      [name |-> "lnk",   kind |-> "symlink"] }

----------------------------------------------------------------------------
(* Values *)

Null == [type |-> "null"]
NoError == [code |-> "none", at |-> "none"]
NoBody == [kind |-> "unset"]

RECURSIVE SeqsUpTo(_, _)
SeqsUpTo(S, n) ==
    IF n = 0 THEN { <<>> }
    ELSE LET shorter == SeqsUpTo(S, n - 1)
         IN  shorter \cup { Append(s, x) : s \in shorter, x \in S }

NoRepeat(s) == \A i, j \in 1..Len(s) : i # j => s[i].name # s[j].name

\* Listings in the order the operating system returns them.
Listings == { s \in SeqsUpTo(Dirents, MaxEntries) : NoRepeat(s) }

\* What a path can hold.  `access` tells whether the object can be opened:
\* a stat of it succeeds all the same.  "noaccess" is a path whose stat
\* fails for a reason other than absence.
Nodes ==
    { [type |-> "absent"], [type |-> "noaccess"], [type |-> "other"] }
    \cup { [type |-> "file", data |-> d, access |-> TRUE] : d \in Contents }
    \cup { [type |-> "file", data |-> <<>>, access |-> FALSE] }
    \cup { [type |-> "dir", entries |-> l, access |-> TRUE] : l \in Listings }
    \cup { [type |-> "dir", entries |-> <<>>, access |-> FALSE] }

\* resolvePath, the injected resolver: here it roots the request path.
resolvePath(p) == "/root" \o p

FsPaths == { resolvePath(p) : p \in HttpPaths }

----------------------------------------------------------------------------
(* fs/promises *)

Ok(v) == [ok |-> TRUE, value |-> v]
Fail(c) == [ok |-> FALSE, code |-> c]

\* fs.stat(path)
fsStat(path) ==
    LET n == fs[path]
    IN  CASE n.type = "absent"   -> Fail("ENOENT")
          [] n.type = "noaccess" -> Fail("EACCES")
          [] n.type = "file"     -> Ok([kind |-> "file", size |-> Len(n.data)])
          [] n.type = "dir"      -> Ok([kind |-> "dir", size |-> 0])
          [] OTHER               -> Ok([kind |-> "other", size |-> 0])

\* fs.readFile(path)
fsReadFile(path) ==
    LET n == fs[path]
    IN  CASE n.type = "absent"   -> Fail("ENOENT")
          [] n.type = "noaccess" -> Fail("EACCES")
          [] n.type = "dir"      -> Fail("EISDIR")
          [] n.type = "file"     -> IF n.access THEN Ok(n.data) ELSE Fail("EACCES")
          [] OTHER               -> Fail("ENXIO")

\* fs.readdir(path, { withFileTypes: true }): the Dirent list
fsReaddirDirents(path) ==
    LET n == fs[path]
    IN  CASE n.type = "absent"   -> Fail("ENOENT")
          [] n.type = "noaccess" -> Fail("EACCES")
          [] n.type = "dir"      -> IF n.access THEN Ok(n.entries) ELSE Fail("EACCES")
          [] OTHER               -> Fail("ENOTDIR")

\* fs.readdir(path): the names of the same list
fsReaddir(path) ==
    LET r == fsReaddirDirents(path)
    IN  IF r.ok THEN Ok([i \in 1..Len(r.value) |-> r.value[i].name]) ELSE r

\* Stats.isFile(), Stats.isDirectory(), Dirent.isFile(), Dirent.isDirectory()
isFile(s) == s.kind = "file"
isDirectory(s) == s.kind = "dir"

----------------------------------------------------------------------------
(* ctx.query.command *)

\* JavaScript truthiness of ctx.query.command (line 117): undefined and the
\* empty string are falsy, every other string and every array is truthy.
Truthy(c) == c # <<>> /\ c # <<"">>

\* ctx.query.command === s: only a string equals a string.
Is(c, s) == c = <<s>>

\* ctx.query.command.toString(): a string is itself, an array is its
\* elements joined by commas.
RECURSIVE toString(_)
toString(c) ==
    IF Len(c) = 0 THEN ""
    ELSE IF Len(c) = 1 THEN c[1]
    ELSE c[1] \o "," \o toString(Tail(c))

----------------------------------------------------------------------------
(* Readers.  An async reader either returns at once or suspends at an      *)
(* await of an fs call; Return and Await name the two outcomes.            *)

Return(resp) == [do |-> "respond", response |-> resp, detailed |-> FALSE]
Await(call, det) == [do |-> call, response |-> Null, detailed |-> det]

FileResponse(data) == [type |-> "file", data |-> data]
DirResponse(items) == [type |-> "dir", items |-> items]
StatResponse(st) == [type |-> "stats", stats |-> st]
ErrorResponse(code, message) == [type |-> "error", code |-> code, message |-> message]

\* readIfFile without its isFile test
readIfFileUnchecked(st) == Await("readFile", FALSE)

\* readIfFile up to its await
readIfFile(st) ==
    IF isFile(st) THEN Await("readFile", FALSE) ELSE Return(Null)

\* readIfDir without its isDirectory test
readIfDirUnchecked(st, det) == Await("readdir", det)

\* readIfDir up to its await
readIfDir(st, det) ==
    IF isDirectory(st) THEN Await("readdir", det) ELSE Return(Null)

\* the forEach pushing every entry, whatever its kind
RECURSIVE SimpleDirentsUnfiltered(_)
SimpleDirentsUnfiltered(dirents) ==
    IF dirents = <<>> THEN <<>>
    ELSE LET dirent == Head(dirents)
             simpleDirent == [name |-> dirent.name, dir |-> isDirectory(dirent)]
         IN  <<simpleDirent>> \o SimpleDirentsUnfiltered(Tail(dirents))

\* the dirents.forEach of readIfDir: the items of a detailed listing
RECURSIVE SimpleDirents(_)
SimpleDirents(dirents) ==
    IF dirents = <<>> THEN <<>>
    ELSE LET dirent == Head(dirents)
             simpleDirent == [name |-> dirent.name, dir |-> isDirectory(dirent)]
         IN  IF isFile(dirent) \/ isDirectory(dirent)
             THEN <<simpleDirent>> \o SimpleDirents(Tail(dirents))
             ELSE SimpleDirents(Tail(dirents))

\* statIfSupported deriving `dir` from isFile
statIfSupportedDirFromIsFile(st) ==
    IF isFile(st) \/ isDirectory(st)
    THEN StatResponse([kind |-> st.kind, size |-> st.size, dir |-> isFile(st)])
    ELSE Null

\* statIfSupported
statIfSupported(st) ==
    IF isFile(st) \/ isDirectory(st)
    THEN StatResponse([kind |-> st.kind, size |-> st.size, dir |-> isDirectory(st)])
    ELSE Null

----------------------------------------------------------------------------
(* The handler *)

\* The dispatch without its final else: an unknown command leaves
\* `response` null.
RouteUnknownAsNull(c, st) ==
    IF Truthy(c)
    THEN CASE Is(c, "readfile")         -> readIfFile(st)
           [] Is(c, "readdir")          -> readIfDir(st, FALSE)
           [] Is(c, "readdir-detailed") -> readIfDir(st, TRUE)
           [] Is(c, "stat")             -> Return(statIfSupported(st))
           [] OTHER                     -> Return(Null)
    ELSE LET first == readIfFile(st)
         IN  IF first = Return(Null) THEN readIfDir(st, FALSE) ELSE first

\* The dispatch whose no-command branch tries readIfFile alone.
RouteFileOnly(c, st) ==
    IF Truthy(c)
    THEN CASE Is(c, "readfile")         -> readIfFile(st)
           [] Is(c, "readdir")          -> readIfDir(st, FALSE)
           [] Is(c, "readdir-detailed") -> readIfDir(st, TRUE)
           [] Is(c, "stat")             -> Return(statIfSupported(st))
           [] OTHER -> Return(ErrorResponse(500, "Unknown command " \o toString(c)))
    ELSE readIfFile(st)

\* The command dispatch that follows the stat, up to the next await.
Route(c, st) ==
    IF Truthy(c)
    THEN CASE Is(c, "readfile")         -> readIfFile(st)
           [] Is(c, "readdir")          -> readIfDir(st, FALSE)
           [] Is(c, "readdir-detailed") -> readIfDir(st, TRUE)
           [] Is(c, "stat")             -> Return(statIfSupported(st))
           [] OTHER -> Return(ErrorResponse(500, "Unknown command " \o toString(c)))
    ELSE LET first == readIfFile(st)
         IN  IF first = Return(Null) THEN readIfDir(st, FALSE) ELSE first

\* What follows the resolution of readIfFile's promise with `resp`:
\* under a command the value is the response; without one, `??` falls
\* through to readIfDir when the value is null.
AfterReadIfFile(c, st, resp) ==
    IF ~Truthy(c) /\ resp = Null THEN readIfDir(st, FALSE) ELSE Return(resp)

\* The translation without the test for an ErrorResponse.
TranslateErrorAsBody(resp) ==
    IF resp # Null
    THEN [status |-> 200, body |-> [kind |-> "json", value |-> resp]]
    ELSE [status |-> 500, body |-> NoBody]

\* The translation of `response` to ctx.status and ctx.body.
Translate(resp) ==
    IF resp # Null
    THEN IF resp.type # "error"
         THEN [status |-> 200, body |-> [kind |-> "json", value |-> resp]]
         ELSE [status |-> resp.code, body |-> [kind |-> "text", text |-> resp.message]]
    ELSE [status |-> 500, body |-> NoBody]

\* The catch clause without the ENOENT case.
CatchStatusAlways500(code) == 500

\* The catch clause.
CatchStatus(code) == IF code = "ENOENT" THEN 404 ELSE 500

\* A try block closed right after the stat.
InTryStatOnly(at) == at = "stat"

\* Whether an error raised by the awaited call `at` is thrown inside the
\* try block: the block holds the stat and the whole dispatch.
InTry(at) == at \in {"stat", "readFile", "readdir"}

\* `path` kept in a variable the requests share: a handler reads what
\* another request left there.
PathOfOther(r) == resolvePath(ctx[CHOOSE q \in Requests : q # r].path)

\* const path = resolvePath(ctx.path)
Path(r) == resolvePath(ctx[r].path)

Call(r, name) == [op |-> name, path |-> Path(r)]

\* The handler sets the response from `resp` and returns.
Finish(r, resp) ==
    LET t == Translate(resp)
    IN  /\ response' = [response EXCEPT ![r] = resp]
        /\ ctx' = [ctx EXCEPT ![r].status = t.status, ![r].body = t.body]
        /\ sets' = [sets EXCEPT ![r] = @ + 1]
        /\ pc' = [pc EXCEPT ![r] = "done"]
        /\ UNCHANGED <<caught, ops, detailed>>

\* The handler goes on after a reader returned or suspended.
Continue(r, step) ==
    IF step.do = "respond"
    THEN Finish(r, step.response)
    ELSE /\ pc' = [pc EXCEPT ![r] = step.do]
         /\ ops' = [ops EXCEPT ![r] = Append(@, Call(r, step.do))]
         /\ detailed' = [detailed EXCEPT ![r] = step.detailed]
         /\ UNCHANGED <<ctx, response, caught, sets>>

\* An awaited call rejects with an error of code `code`.
Throw(r, code, at) ==
    IF InTry(at)
    THEN /\ caught' = [caught EXCEPT ![r] = [code |-> code, at |-> at]]
         /\ ctx' = [ctx EXCEPT ![r].status = CatchStatus(code)]
         /\ sets' = [sets EXCEPT ![r] = @ + 1]
         /\ pc' = [pc EXCEPT ![r] = "done"]
         /\ UNCHANGED <<response, ops, detailed>>
    ELSE /\ pc' = [pc EXCEPT ![r] = "thrown"]
         /\ UNCHANGED <<ctx, response, caught, sets, ops, detailed>>

Init ==
    /\ fs \in [FsPaths -> Nodes]
    /\ pc = [r \in Requests |-> "idle"]
    /\ ctx = [r \in Requests |->
                [path |-> "/a", command |-> <<>>, status |-> 0, body |-> NoBody]]
    /\ stats = [r \in Requests |-> Null]
    /\ detailed = [r \in Requests |-> FALSE]
    /\ response = [r \in Requests |-> Null]
    /\ caught = [r \in Requests |-> NoError]
    /\ ops = [r \in Requests |-> <<>>]
    /\ sets = [r \in Requests |-> 0]

\* A GET request arrives: the handler resolves the path and awaits fs.stat.
Receive(r, p, c) ==
    /\ pc[r] = "idle"
    /\ ctx' = [ctx EXCEPT ![r].path = p, ![r].command = c]
    /\ pc' = [pc EXCEPT ![r] = "stat"]
    /\ ops' = [ops EXCEPT ![r] = <<[op |-> "stat", path |-> resolvePath(p)]>>]
    /\ UNCHANGED <<fs, stats, detailed, response, caught, sets>>

\* fs.stat resolves or rejects; on success the dispatch runs.
StatDone(r) ==
    /\ pc[r] = "stat"
    /\ LET res == fsStat(Path(r))
       IN  IF res.ok
           THEN /\ stats' = [stats EXCEPT ![r] = res.value]
                /\ Continue(r, Route(ctx[r].command, res.value))
           ELSE /\ Throw(r, res.code, "stat")
                /\ UNCHANGED stats
    /\ UNCHANGED fs

\* fs.readFile resolves or rejects.
ReadFileDone(r) ==
    /\ pc[r] = "readFile"
    /\ LET res == fsReadFile(Path(r))
       IN  IF res.ok
           THEN Continue(r, AfterReadIfFile(ctx[r].command, stats[r], FileResponse(res.value)))
           ELSE Throw(r, res.code, "readFile")
    /\ UNCHANGED <<fs, stats>>

\* fs.readdir resolves or rejects.
ReaddirDone(r) ==
    /\ pc[r] = "readdir"
    /\ LET res == IF detailed[r] THEN fsReaddirDirents(Path(r)) ELSE fsReaddir(Path(r))
       IN  IF res.ok
           THEN Finish(r, DirResponse(IF detailed[r] THEN SimpleDirents(res.value)
                                                     ELSE res.value))
           ELSE Throw(r, res.code, "readdir")
    /\ UNCHANGED <<fs, stats>>

\* Another process removes the object at a path.
FsRemove(path) ==
    /\ fs[path].type # "absent"
    /\ fs' = [fs EXCEPT ![path] = [type |-> "absent"]]
    /\ UNCHANGED <<pc, ctx, stats, detailed, response, caught, ops, sets>>

\* Another process puts an object at a path, replacing what is there.
FsWrite(path, n) ==
    /\ n.type # "absent"
    /\ fs[path] # n
    /\ fs' = [fs EXCEPT ![path] = n]
    /\ UNCHANGED <<pc, ctx, stats, detailed, response, caught, ops, sets>>

\* The handlers of the requests in R take their steps.
Serve(R) ==
    \/ \E r \in R, p \in HttpPaths, c \in Commands : Receive(r, p, c)
    \/ \E r \in R : StatDone(r)
    \/ \E r \in R : ReadFileDone(r)
    \/ \E r \in R : ReaddirDone(r)

Change ==
    \/ \E path \in FsPaths : FsRemove(path)
    \/ \E path \in FsPaths, n \in Nodes : FsWrite(path, n)

Next == Serve(Solo) \/ Change

\* One request served while other processes change the filesystem at any
\* moment, between its awaits included.
Spec == Init /\ [][Next]_vars

\* Concurrent requests, interleaved at their awaits, served against a
\* filesystem nobody changes.
SpecStable == Init /\ [][Serve(Requests)]_vars

----------------------------------------------------------------------------
(* Properties *)

Known == {"readfile", "readdir", "readdir-detailed", "stat"}

Command(r) == ctx[r].command
Status(r) == ctx[r].status
Body(r) == ctx[r].body
Json(v) == [kind |-> "json", value |-> v]
Text(t) == [kind |-> "text", text |-> t]
Node(r) == fs[Path(r)]
Issued(r, name) == \E i \in 1..Len(ops[r]) : ops[r][i].op = name

\* The awaited call `at` of request r settles in this step.
Settles(r, at) == pc[r] = at /\ pc'[r] # at

\* C1: whenever fs.stat settles on a path that does not exist, the request
\* ends with status 404 and no body, whatever the command.
C1_NotFound ==
    [][\A r \in Requests :
          Settles(r, "stat") /\ Node(r).type = "absent"
          => /\ pc'[r] = "done"
             /\ ctx'[r].status = 404
             /\ ctx'[r].body = NoBody]_vars

C1_Witness ==
    \E r \in Requests :
        /\ pc[r] = "done" /\ Status(r) = 404 /\ Body(r) = NoBody
        /\ caught[r] = [code |-> "ENOENT", at |-> "stat"]
        /\ Command(r) = <<"bogus">>

\* C2 as stated: on an existing path every command string other than the
\* four known ones, the empty string included, gives 500 with the body
\* 'Unknown command <value>' and no read or listing.
C2_Original ==
    \A r \in Requests :
        stats[r] # Null /\ Len(Command(r)) = 1 /\ Command(r)[1] \notin Known
        => /\ pc[r] = "done"
           /\ Status(r) = 500
           /\ Body(r) = Text("Unknown command " \o Command(r)[1])
           /\ ops[r] = <<Call(r, "stat")>>

\* C2 amended: on an existing path every non-empty command string other
\* than the four known ones gives 500 with the body 'Unknown command
\* <value>' and no read or listing; so does a repeated command parameter,
\* whose value is the comma-joined list.
C2_UnknownCommand ==
    \A r \in Requests :
        /\ stats[r] # Null /\ Len(Command(r)) = 1
             /\ Command(r)[1] \notin Known \cup {""}
           => /\ pc[r] = "done"
              /\ Status(r) = 500
              /\ Body(r) = Text("Unknown command " \o Command(r)[1])
              /\ ops[r] = <<Call(r, "stat")>>
        /\ stats[r] # Null /\ Command(r) = <<"readfile", "readfile">>
           => /\ pc[r] = "done"
              /\ Status(r) = 500
              /\ Body(r) = Text("Unknown command readfile,readfile")
              /\ ops[r] = <<Call(r, "stat")>>

C2_Witness ==
    \E r \in Requests :
        /\ stats[r] # Null /\ isDirectory(stats[r])
        /\ Command(r) = <<"bogus">>
        /\ Status(r) = 500 /\ Body(r) = Text("Unknown command bogus")

\* C3: a command that applies to the path's type, and whose read or
\* listing succeeds, gives 200 and the envelope of what the filesystem
\* holds: the file's bytes, the entry names in listing order, the stats
\* with dir false for a file and true for a directory.
C3_Success ==
    [][\A r \in Requests :
          /\ Settles(r, "readFile") /\ Command(r) = <<"readfile">>
               /\ Node(r).type = "file" /\ Node(r).access
             => /\ pc'[r] = "done"
                /\ ctx'[r].status = 200
                /\ ctx'[r].body = Json([type |-> "file", data |-> Node(r).data])
          /\ Settles(r, "readdir") /\ Command(r) = <<"readdir">>
               /\ Node(r).type = "dir" /\ Node(r).access
             => /\ pc'[r] = "done"
                /\ ctx'[r].status = 200
                /\ ctx'[r].body.kind = "json"
                /\ ctx'[r].body.value.type = "dir"
                /\ LET items == ctx'[r].body.value.items
                   IN  /\ Len(items) = Len(Node(r).entries)
                       /\ \A i \in 1..Len(items) : items[i] = Node(r).entries[i].name
          /\ Settles(r, "stat") /\ Command(r) = <<"stat">>
               /\ Node(r).type \in {"file", "dir"}
             => /\ pc'[r] = "done"
                /\ ctx'[r].status = 200
                /\ ctx'[r].body.kind = "json"
                /\ ctx'[r].body.value.type = "stats"
                /\ ctx'[r].body.value.stats.dir = (Node(r).type = "dir")]_vars

C3_Witness ==
    \E r \in Requests :
        /\ pc[r] = "done" /\ Status(r) = 200
        /\ Command(r) = <<"readdir">>
        /\ Body(r) = Json([type |-> "dir", items |-> <<"sub", "a.txt">>])

\* The recognised command c does not apply to an object of kind k.
Inapplicable(c, k) ==
    \/ c = <<"readfile">> /\ k # "file"
    \/ c \in {<<"readdir">>, <<"readdir-detailed">>} /\ k # "dir"
    \/ c = <<"stat">> /\ k \notin {"file", "dir"}

\* C4: on an existing path a recognised command that does not apply to the
\* path's type gives 500 with no body and no read or listing, and no Stats
\* envelope is ever produced for an object that is neither a file nor a
\* directory.
C4_Inapplicable ==
    \A r \in Requests :
        /\ stats[r] # Null /\ Inapplicable(Command(r), stats[r].kind)
           => /\ pc[r] = "done"
              /\ Status(r) = 500
              /\ Body(r) = NoBody
              /\ ops[r] = <<Call(r, "stat")>>
        /\ Body(r).kind = "json" /\ Body(r).value.type = "stats"
           => stats[r].kind \in {"file", "dir"}

C4_Witness ==
    \E r \in Requests :
        /\ pc[r] = "done" /\ stats[r] # Null /\ stats[r].kind = "other"
        /\ Command(r) = <<"stat">>
        /\ Status(r) = 500 /\ Body(r) = NoBody

Done(r) == pc[r] = "done"

\* Requests r and q ended with the same status and the same body.
SameOutcome(r, q) == Status(r) = Status(q) /\ Body(r) = Body(q)

\* C5: on an unchanged filesystem a request without a command ends as
\* command=readfile does on a regular file and as command=readdir does on a
\* directory, ends with 500 and no body on an existing object that is
\* neither, and never lists a regular file.
C5_NoCommand ==
    \A r \in Requests :
        Command(r) = <<>> /\ pc[r] # "idle"
        => /\ \A q \in Requests :
                /\ Done(r) /\ Done(q) /\ ctx[q].path = ctx[r].path
                /\ \/ Node(r).type = "file" /\ Command(q) = <<"readfile">>
                   \/ Node(r).type = "dir" /\ Command(q) = <<"readdir">>
                => SameOutcome(r, q)
           /\ Done(r) /\ Node(r).type = "other"
              => Status(r) = 500 /\ Body(r) = NoBody
           /\ Node(r).type = "file" => ~Issued(r, "readdir")

C5_Witness ==
    \E r, q \in Requests :
        /\ Done(r) /\ Done(q) /\ ctx[q].path = ctx[r].path
        /\ Command(r) = <<>> /\ Command(q) = <<"readdir">>
        /\ Status(r) = 200
        /\ Body(r) = Json([type |-> "dir", items |-> <<"a.txt", "sub">>])

\* Position of the i-th listing entry among the entries a detailed listing
\* keeps.
Kept(entries) == { i \in 1..Len(entries) : entries[i].kind \in {"file", "dir"} }
Rank(entries, i) == Cardinality({ j \in Kept(entries) : j <= i })

\* C6: a detailed listing of a directory holds exactly the entries that
\* are a plain file or a plain directory, in listing order, each as
\* (name, dir) with dir true exactly for a directory.
C6_Detailed ==
    [][\A r \in Requests :
          /\ Settles(r, "readdir") /\ Command(r) = <<"readdir-detailed">>
          /\ Node(r).type = "dir" /\ Node(r).access
          => /\ pc'[r] = "done"
             /\ ctx'[r].status = 200
             /\ ctx'[r].body.kind = "json"
             /\ ctx'[r].body.value.type = "dir"
             /\ LET entries == Node(r).entries
                    items == ctx'[r].body.value.items
                IN  /\ Len(items) = Cardinality(Kept(entries))
                    /\ \A i \in Kept(entries) :
                          items[Rank(entries, i)] =
                              [name |-> entries[i].name,
                               dir |-> entries[i].kind = "dir"]]_vars

C6_Witness ==
    \E r \in Requests :
        /\ Done(r) /\ Command(r) = <<"readdir-detailed">>
        /\ Body(r) = Json([type |-> "dir",
                           items |-> <<[name |-> "sub", dir |-> TRUE]>>])
        /\ Node(r).type = "dir" /\ Len(Node(r).entries) = 2

C8_StatFirst ==
    \A r \in Requests :
        /\ pc[r] # "idle" => Len(ops[r]) >= 1 /\ ops[r][1] = Call(r, "stat")
        /\ \A i \in 2..Len(ops[r]) :
              /\ stats[r] # Null
              /\ ops[r][i].path = Path(r)
              /\ \/ ops[r][i].op = "readFile" /\ stats[r].kind = "file"
                 \/ ops[r][i].op = "readdir" /\ stats[r].kind = "dir"
        /\ pc[r] \in {"readFile", "readdir"} => Issued(r, pc[r])
        /\ caught[r].at = "stat" => Len(ops[r]) = 1

C8_Witness ==
    \E r \in Requests :
        /\ Done(r) /\ Command(r) = <<>>
        /\ ops[r] = <<Call(r, "stat"), Call(r, "readdir")>>

C10_OneOutcome ==
    \A r \in Requests :
        /\ sets[r] = IF Done(r) THEN 1 ELSE 0
        /\ ~Done(r) => Status(r) = 0 /\ Body(r) = NoBody
        /\ Done(r)
           => /\ Status(r) \in {200, 404, 500}
              /\ Status(r) = 200
                 <=> Body(r).kind = "json"
                       /\ Body(r).value.type \in {"file", "dir", "stats"}
              /\ Body(r).kind \in {"unset", "json", "text"}
              /\ Body(r).kind = "json" => Body(r).value.type # "error"
              /\ Body(r).kind = "text"
                 => /\ Status(r) = 500
                    /\ Truthy(Command(r))
                    /\ \A k \in Known : Command(r) # <<k>>

C10_Witness ==
    \E r \in Requests :
        /\ Done(r) /\ Status(r) = 500 /\ Body(r).kind = "text"
        /\ sets[r] = 1

====
